---- MODULE Spec2Model ----
(***************************************************************************)
(* Typpete, frontend/z3_types.py: the class hierarchy construction         *)
(* (Z3Types.create_class_tree) and the subtyping axioms generated from it  *)
(* (Z3Types.create_subtype_axioms and its union helpers).                  *)
(*                                                                         *)
(* The hierarchy construction is modelled one iteration of its while loop  *)
(* per step.  The axioms are modelled by what they say: every axiom is an  *)
(* equation subtype(literal, x) == Or(options), and RhsA / RhsB evaluate   *)
(* the right-hand side of the axiom of a term's constructor on ground      *)
(* terms.                                                                  *)
(***************************************************************************)
EXTENDS Integers, Sequences, FiniteSets, TLC

VARIABLES
    all_classes,          \* the class -> bases mapping, in key order (an OrderedDict)
    none_subtype_of_all,  \* config["none_subtype_of_all"]
    to_cover,             \* create_class_tree: the worklist
    covered,              \* create_class_tree: the covered names
    i,                    \* create_class_tree: the index of the next candidate
    nodes,                \* the ClassNode objects made so far; nodes[1] is graph
    pc,                   \* "loop" | "done" | "crashed" | "ready"
    axioms,               \* the axioms create_subtype_axioms has appended
    query,                \* the last subtype application evaluated, or NoQuery
    via                   \* <<m>> when query.s and query.t were taken with a type m
                          \* between them, otherwise <<>>

vars == <<all_classes, none_subtype_of_all, to_cover, covered, i, nodes, pc,
          axioms, query, via>>

---------------------------------------------------------------------------
(* Bounds of the model. *)

\* the longest class -> bases mapping given to create_class_tree alone
MaxClasses == 4
\* the number of requeues after which the model stops following the loop
MaxRequeues == 6

---------------------------------------------------------------------------
(* The mapping: a sequence of entries, one per key, in insertion order. *)

Entry(n, bs) == [name |-> n, bases |-> bs]

Range(s) == {s[j] : j \in 1..Len(s)}

Keys(ac) == {ac[j].name : j \in 1..Len(ac)}

\* list(all_classes.keys())
KeyList(ac) == [j \in 1..Len(ac) |-> ac[j].name]

\* all_classes[current]
BasesOf(ac, n) == ac[CHOOSE j \in 1..Len(ac) : ac[j].name = n].bases

---------------------------------------------------------------------------
(* ClassNode.  None is 0; a node is named by its index in nodes. *)

None == 0

\* ClassNode(name, [], type_sort)
ClassNode(n) == [name |-> n, parents |-> <<>>, children |-> <<>>]

RECURSIVE FindFrom(_, _, _)
RECURSIVE FindAmong(_, _, _)
\* n.find(name): the node itself, or the first hit among its children, depth first
FindFrom(ns, n, name) ==
    IF ns[n].name = name THEN n ELSE FindAmong(ns, ns[n].children, name)

FindAmong(ns, cs, name) ==
    IF cs = <<>> THEN None
    ELSE LET r == FindFrom(ns, Head(cs), name)
         IN  IF r # None THEN r ELSE FindAmong(ns, Tail(cs), name)

\* graph.find(name)
Find(ns, name) == FindFrom(ns, 1, name)

RECURSIVE Attach(_, _, _)
\* the loop "for base in bases" of create_class_tree on the node cur: each base
\* node is looked up, appended to cur's parents, and given cur as a child.  A
\* base that graph.find does not find is None: it is appended to the parents and
\* None.children raises AttributeError (ok = FALSE).
Attach(ns, cur, bs) ==
    IF bs = <<>> THEN [nodes |-> ns, ok |-> TRUE]
    ELSE LET base_node == Find(ns, Head(bs))
             ns1 == [ns EXCEPT ![cur].parents = Append(@, base_node)]
         IN  IF base_node = None
             THEN [nodes |-> ns1, ok |-> FALSE]
             ELSE Attach([ns1 EXCEPT ![base_node].children = Append(@, cur)],
                         cur, Tail(bs))

---------------------------------------------------------------------------
(* create_class_tree, one iteration of "while i < len(to_cover)" per step. *)

Requeues == Len(to_cover) - Len(all_classes)

\* the state at the head of the while loop, for the mapping ac
TreeStart(ac) ==
    /\ all_classes = ac
    /\ to_cover = KeyList(ac)
    /\ covered = {"object"}
    /\ i = 0
    /\ nodes = <<ClassNode("object")>>
    /\ pc = "loop"
    /\ axioms = {}

\* "if base not in covered: cont = True" for some base
SomeBaseUncovered(current) ==
    \E b \in Range(BasesOf(all_classes, current)) : b \notin covered

\* the iteration that pushes the candidate back to the end of the worklist
LoopRequeue ==
    /\ pc = "loop"
    /\ i < Len(to_cover)
    /\ SomeBaseUncovered(to_cover[i + 1])
    /\ Requeues < MaxRequeues
    /\ i' = i + 1
    /\ to_cover' = Append(to_cover, to_cover[i + 1])
    /\ UNCHANGED <<all_classes, none_subtype_of_all, covered, nodes, pc, axioms, query, via>>

\* the iteration that makes the candidate's node and links it to its bases
LoopMaterialize ==
    /\ pc = "loop"
    /\ i < Len(to_cover)
    /\ ~SomeBaseUncovered(to_cover[i + 1])
    /\ LET current == to_cover[i + 1]
           made == Attach(Append(nodes, ClassNode(current)), Len(nodes) + 1,
                          BasesOf(all_classes, current))
       IN  /\ i' = i + 1
           /\ nodes' = made.nodes
           /\ IF made.ok
              THEN covered' = covered \cup {current} /\ pc' = "loop"
              ELSE covered' = covered /\ pc' = "crashed"
    /\ UNCHANGED <<all_classes, none_subtype_of_all, to_cover, axioms, query, via>>

\* "return graph"
LoopReturn ==
    /\ pc = "loop"
    /\ i = Len(to_cover)
    /\ pc' = "done"
    /\ UNCHANGED <<all_classes, none_subtype_of_all, to_cover, covered, i, nodes,
                   axioms, query, via>>

---------------------------------------------------------------------------
(* The type sort (declare_type_sort): a term is a constructor applied to   *)
(* its fields.  dflt is the func_k_defaults_args field of a function (0 in *)
(* every other term); the fields of a function are its arguments followed  *)
(* by its return type.                                                     *)

\* config.max_tuple_length
max_tuple_length == 2
\* config.max_function_args
max_function_args == 1
\* config["maximum_union_length"]
max_union_length == 3

TupleCon(k) == "tuple_" \o ToString(k)
FuncCon(k) == "func_" \o ToString(k)
UnionCon(k) == "union_" \o ToString(k)

TupleCons == {TupleCon(k) : k \in 0..max_tuple_length}
FuncCons == {FuncCon(k) : k \in 0..max_function_args}
UnionCons == {UnionCon(k) : k \in 2..max_union_length}

Term(con, d, fields) == [con |-> con, dflt |-> d, args |-> fields]
Cls(n) == Term(n, 0, <<>>)
Tuple(elems) == Term(TupleCon(Len(elems)), 0, elems)
Func(d, params, ret) == Term(FuncCon(Len(params)), d, Append(params, ret))
Union(members) == Term(UnionCon(Len(members)), 0, members)

\* the arguments of a function term, without its return type
Params(f) == SubSeq(f.args, 1, Len(f.args) - 1)
\* func_k_return
Return(f) == f.args[Len(f.args)]

---------------------------------------------------------------------------
(* ClassNode traversal. *)

RECURSIVE all_children(_)
\* n.all_children(): n and its transitive descendants
all_children(n) ==
    {n} \cup UNION {all_children(nodes[n].children[j]) : j \in 1..Len(nodes[n].children)}

RECURSIVE all_parents(_)
\* n.all_parents(): n and its transitive ancestors
all_parents(n) ==
    {n} \cup UNION {all_parents(nodes[n].parents[j]) : j \in 1..Len(nodes[n].parents)}

\* the node whose axioms are about the terms of constructor con
NodeOf(con) == Find(nodes, con)

\* x == base.get_literal(), inside the axioms of the node of the term lit: the
\* literal of the node itself is lit (its constructor on its own y0, y1, ...),
\* the literal of an ordinary class is its constant
EqualsLiteral(x, base, lit) ==
    IF nodes[base].name = lit.con THEN x = lit ELSE x = Cls(nodes[base].name)

\* x == sub.get_literal_with_args(x): x is built by sub's constructor
EqualsLiteralWithArgs(x, sub) == x.con = nodes[sub].name

---------------------------------------------------------------------------
(* create_subtype_axioms: which axioms are appended. *)

\* the condition of line 200 with the flag read the other way round
EmitsAxiomAInverted(name) ==
    name # "none" \/ (name = "none" /\ none_subtype_of_all)

\* "if c.name != 'none' or c.name == 'none' and not config['none_subtype_of_all']"
EmitsAxiomA(name) ==
    name # "none" \/ (name = "none" /\ ~none_subtype_of_all)

\* the loop "for c in tree.all_children()": the axiom triggered by subtype(C, X)
\* under its condition, and always the one triggered by subtype(X, C)
GeneratedAxioms ==
    {<<"A", nodes[c].name>> : c \in {d \in all_children(1) : EmitsAxiomA(nodes[d].name)}}
        \cup {<<"B", nodes[c].name>> : c \in all_children(1)}

create_subtype_axioms ==
    /\ pc = "done"
    /\ axioms' = GeneratedAxioms
    /\ pc' = "ready"
    /\ UNCHANGED <<all_classes, none_subtype_of_all, to_cover, covered, i, nodes, query, via>>

---------------------------------------------------------------------------
(* The right-hand sides of the axioms, on ground terms.                    *)
(*                                                                         *)
(* An axiom's right-hand side applies subtype to fields of its two terms.  *)
(* Sub(p, s, t) is the value the axioms give such an application: under    *)
(* p = "A" the right-hand side of the axiom triggered by subtype(s, X),    *)
(* when one was generated for s, and under p = "B" (or when none was) the  *)
(* right-hand side of the axiom triggered by subtype(X, t).                *)

RECURSIVE Sub(_, _, _)

\* _not_union(expr)
NotUnion(expr) == \A k \in 2..max_union_length : expr.con # UnionCon(k)

\* line 332: arg != union_2(union_2_arg_1(arg), union_2_arg_2(arg))
NotUnion2(arg) == arg.con # UnionCon(2)

\* lines 212-218 with the two sides of subtype swapped for tuples
VarianceAContravariantTuples(p, c, x) ==
    IF c.con \in TupleCons
    THEN \A j \in 1..Len(c.args) : Sub(p, x.args[j], c.args[j])
    ELSE /\ \A j \in 1..(Len(c.args) - 1) : Sub(p, x.args[j], c.args[j])
         /\ Sub(p, Return(c), Return(x))

\* lines 212-218: the fields of the tuple or function c against those of x
VarianceA(p, c, x) ==
    IF c.con \in TupleCons
    THEN \A j \in 1..Len(c.args) : Sub(p, c.args[j], x.args[j])
    ELSE /\ \A j \in 1..(Len(c.args) - 1) : Sub(p, x.args[j], c.args[j])
         /\ Sub(p, Return(c), Return(x))

\* lines 260-266 with the parameters of a function covariant
VarianceBCovariantParams(p, x, c) ==
    IF c.con \in TupleCons
    THEN \A j \in 1..Len(c.args) : Sub(p, x.args[j], c.args[j])
    ELSE /\ \A j \in 1..(Len(c.args) - 1) : Sub(p, x.args[j], c.args[j])
         /\ Sub(p, Return(x), Return(c))

\* lines 260-266
VarianceB(p, x, c) ==
    IF c.con \in TupleCons
    THEN \A j \in 1..Len(c.args) : Sub(p, x.args[j], c.args[j])
    ELSE /\ \A j \in 1..(Len(c.args) - 1) : Sub(p, c.args[j], x.args[j])
         /\ Sub(p, Return(x), Return(c))

\* lines 229-232 over c and its direct parents only
BaseOptionsDirectOnly(c, x) ==
    \E base \in {NodeOf(c.con)} \cup Range(nodes[NodeOf(c.con)].parents) :
        EqualsLiteral(x, base, c)

\* lines 229-232: x is the literal of one of c's transitive parents
BaseOptions(c, x) ==
    \E base \in all_parents(NodeOf(c.con)) : EqualsLiteral(x, base, c)

\* lines 273-279 without the case "sub is c"
DescendantOptionsWithoutSelf(x, c) ==
    \E sub \in all_children(NodeOf(c.con)) \ {NodeOf(c.con)} : EqualsLiteralWithArgs(x, sub)

\* lines 273-279: x is c's literal, or is built by one of c's descendants
DescendantOptions(x, c) ==
    \E sub \in all_children(NodeOf(c.con)) :
        IF sub = NodeOf(c.con) THEN x = c ELSE EqualsLiteralWithArgs(x, sub)

\* get_union_as_supertype_axioms(c_literal, x)
get_union_as_supertype_axioms(p, c, x) ==
    \E cur_len \in 2..max_union_length :
        /\ x.con = UnionCon(cur_len)
        /\ \E j \in 1..cur_len : Sub(p, c, x.args[j])
        /\ \A j \in 1..cur_len : NotUnion2(x.args[j])

\* get_union_as_subtype_axioms with Or over the members in place of And
get_union_as_subtype_axioms_some(p, x, c) ==
    \E cur_len \in 2..max_union_length :
        /\ x.con = UnionCon(cur_len)
        /\ \E j \in 1..cur_len : Sub(p, x.args[j], c)

\* get_union_as_subtype_axioms(c_literal, x)
get_union_as_subtype_axioms(p, x, c) ==
    \E cur_len \in 2..max_union_length :
        /\ x.con = UnionCon(cur_len)
        /\ \A j \in 1..cur_len : Sub(p, x.args[j], c)

\* get_union_as_union_supertype_axioms(c.quantified(), x)
get_union_as_union_supertype_axioms(p, options, x) ==
    \E cur_len \in 2..max_union_length :
        /\ x.con = UnionCon(cur_len)
        /\ \A j \in 1..cur_len : NotUnion(x.args[j])
        /\ \A o \in 1..Len(options) : \E j \in 1..cur_len : Sub(p, options[o], x.args[j])

\* get_union_as_union_subtype_axioms(c.quantified(), x)
get_union_as_union_subtype_axioms(p, options, x) ==
    \E cur_len \in 2..max_union_length :
        /\ x.con = UnionCon(cur_len)
        /\ \A j \in 1..cur_len : NotUnion(x.args[j])
        /\ \A o \in 1..Len(options) : \E j \in 1..cur_len : Sub(p, x.args[j], options[o])

\* lines 200-247: the right-hand side of the axiom on subtype(c, x)
RhsA(p, c, x) ==
    IF c.con \in UnionCons
    THEN /\ \A j \in 1..Len(c.args) : NotUnion(c.args[j])
         /\ \/ NotUnion(x) /\ \A j \in 1..Len(c.args) : Sub(p, c.args[j], x)
            \/ get_union_as_union_supertype_axioms(p, c.args, x)
    ELSE \/ c.con \in TupleCons \cup FuncCons /\ x.con = c.con /\ VarianceA(p, c, x)
         \/ BaseOptions(c, x)
         \/ get_union_as_supertype_axioms(p, c, x)

\* line 250 with the option never added
NoneOptionDropped(x) == FALSE

\* line 250: "[x == type_sort.none] if config['none_subtype_of_all'] else []"
NoneOption(x) == none_subtype_of_all /\ x = Cls("none")

\* lines 250-296: the right-hand side of the axiom on subtype(x, c)
RhsB(p, x, c) ==
    IF c.con \in UnionCons
    THEN /\ \A j \in 1..Len(c.args) : NotUnion(c.args[j])
         /\ \/ NoneOption(x)
            \/ NotUnion(x) /\ \E j \in 1..Len(c.args) : Sub(p, x, c.args[j])
            \/ get_union_as_union_subtype_axioms(p, c.args, x)
    ELSE \/ NoneOption(x)
         \/ c.con \in TupleCons \cup FuncCons /\ x.con = c.con /\ VarianceB(p, x, c)
         \/ DescendantOptions(x, c)
         \/ get_union_as_subtype_axioms(p, x, c)

Sub(p, s, t) ==
    IF p = "A" /\ <<"A", s.con>> \in axioms THEN RhsA(p, s, t) ELSE RhsB(p, s, t)

Policies == {"A", "B"}

---------------------------------------------------------------------------
(* The configurations the axioms are generated for, and the subtype        *)
(* applications evaluated against them.                                    *)

\* the keys of the tuple, function and union pseudo-classes, each under object
PseudoClasses ==
    [k \in 1..(max_tuple_length + 1) |-> Entry(TupleCon(k - 1), <<"object">>)]
        \o [k \in 1..(max_function_args + 1) |-> Entry(FuncCon(k - 1), <<"object">>)]
        \o [k \in 1..(max_union_length - 1) |-> Entry(UnionCon(k + 1), <<"object">>)]

\* {object: [], A: [object], B: [object], C: [A, B]} beside none, int and str,
\* with C declared before its bases
DiamondClasses ==
    <<Entry("C", <<"A", "B">>), Entry("object", <<>>), Entry("none", <<"object">>),
      Entry("int", <<"object">>), Entry("str", <<"object">>),
      Entry("A", <<"object">>), Entry("B", <<"object">>)>> \o PseudoClasses

\* a chain C < B < A beside none, int and str, in declaration order
ChainClasses ==
    <<Entry("object", <<>>), Entry("none", <<"object">>),
      Entry("int", <<"object">>), Entry("str", <<"object">>),
      Entry("A", <<"object">>), Entry("B", <<"A">>), Entry("C", <<"B">>)>> \o PseudoClasses

Hierarchies == {DiamondClasses, ChainClasses}

ClassNames == {"object", "none", "int", "str", "A", "B", "C"}

Classes == {Cls(n) : n \in ClassNames}

\* a union that has a union among its members
NestedUnion == Union(<<Union(<<Cls("A"), Cls("A")>>), Cls("A")>>)

\* the types taken as tuple elements, function arguments and return types
ElemTypes == {Cls("object"), Cls("int"), Cls("none"), NestedUnion}

\* the types taken as union members
MemberTypes ==
    {Cls("object"), Cls("none"), Cls("A"), Cls("C"), Union(<<Cls("A"), Cls("A")>>)}

SeqsOf(S, k) == [1..k -> S]

Tuples == UNION {SeqsOf(ElemTypes, k) : k \in 0..max_tuple_length}

Funcs ==
    UNION {{Func(d, params, ret) : d \in 0..1, params \in SeqsOf(ElemTypes, k), ret \in ElemTypes}
           : k \in 0..max_function_args}

Unions == UNION {{Union(ms) : ms \in SeqsOf(MemberTypes, k)} : k \in 2..max_union_length}

\* the types that are not unions
NonUnions == Classes \cup {Tuple(<<Cls("int")>>), Func(0, <<>>, Cls("int"))}

Universe == Classes \cup {Tuple(es) : es \in Tuples} \cup Funcs \cup Unions \cup {NestedUnion}

\* a union that has a union of arity three among its members
WideNestedUnion == Union(<<Cls("object"), Union(<<Cls("A"), Cls("A"), Cls("A")>>)>>)

\* the unions taken against each other: every arity over three classes
PairedUnions ==
    UNION {{Union(ms) : ms \in SeqsOf({Cls("int"), Cls("A"), Cls("C")}, k)}
           : k \in 2..max_union_length}

\* the applications subtype(s, t) evaluated: the classes against each other,
\* tuples and functions of one arity, a union against a type that is not one,
\* none against every term, a union against a union, and the types that are
\* not unions against a union with a union of arity three inside
QueryPairs ==
    (Classes \X Classes)
        \cup {<<Tuple(a), Tuple(b)>> : a, b \in Tuples}
        \cup (Funcs \X Funcs)
        \cup (NonUnions \X Unions)
        \cup (Unions \X NonUnions)
        \cup ({Cls("none")} \X Universe)
        \cup (PairedUnions \X PairedUnions)
        \cup (NonUnions \X {WideNestedUnion})
        \cup ({WideNestedUnion} \X NonUnions)

NoQuery == [posed |-> FALSE, s |-> Cls("object"), t |-> Cls("object"), hasA |-> FALSE,
            a |-> [p \in Policies |-> FALSE], b |-> [p \in Policies |-> FALSE]]

\* subtype(s, t) against the generated axioms: whether the axiom triggered by
\* subtype(s, X) was generated, and the two right-hand sides
Evaluate(s, t) ==
    [posed |-> TRUE, s |-> s, t |-> t,
     hasA |-> <<"A", s.con>> \in axioms,
     a |-> [p \in Policies |-> RhsA(p, s, t)],
     b |-> [p \in Policies |-> RhsB(p, s, t)]]

Query ==
    /\ pc = "ready"
    /\ ~query.posed
    /\ \E st \in QueryPairs : query' = Evaluate(st[1], st[2])
    /\ UNCHANGED <<all_classes, none_subtype_of_all, to_cover, covered, i, nodes, pc, axioms, via>>

\* the members of the unions taken in chains
ChainMembers == {Cls("int"), Cls("object")}

\* the types taken three at a time: classes, none, tuples, functions and the
\* unions of every arity over ChainMembers
ChainTypes ==
    {Cls("object"), Cls("none"), Cls("int"), Cls("A"), Cls("C"),
     Tuple(<<Cls("int")>>), Tuple(<<Cls("object")>>),
     Func(0, <<>>, Cls("int")), Func(0, <<>>, Cls("object"))}
        \cup UNION {{Union(ms) : ms \in SeqsOf(ChainMembers, k)} : k \in 2..max_union_length}

\* subtype(r, t) evaluated for two types taken with a third, m, between them
QueryChain ==
    /\ pc = "ready"
    /\ ~query.posed
    /\ \E r, m, t \in ChainTypes :
            /\ query' = Evaluate(r, t)
            /\ via' = <<m>>
    /\ UNCHANGED <<all_classes, none_subtype_of_all, to_cover, covered, i, nodes, pc, axioms>>

Init ==
    /\ \E ac \in Hierarchies : TreeStart(ac)
    /\ none_subtype_of_all \in BOOLEAN
    /\ query = NoQuery
    /\ via = <<>>

Next ==
    LoopRequeue \/ LoopMaterialize \/ LoopReturn \/ create_subtype_axioms \/ Query \/ QueryChain

Spec == Init /\ [][Next]_vars

---------------------------------------------------------------------------
(* The hierarchy construction alone, over every small mapping. *)

TreeNames == {"object", "A", "B", "C"}

TreeBaseLists ==
    {<<>>, <<"object">>, <<"A">>, <<"B">>, <<"C">>, <<"A", "B">>}

TreeEntries ==
    {Entry("object", <<>>)}
        \cup {Entry(n, bs) : n \in TreeNames \ {"object"}, bs \in TreeBaseLists}

\* every mapping of at most MaxClasses keys, in every key order
TreeInputs ==
    UNION {{ac \in [1..k -> TreeEntries] :
                \A a, b \in 1..k : a # b => ac[a].name # ac[b].name}
           : k \in 1..MaxClasses}

TreeInit ==
    /\ \E ac \in TreeInputs : TreeStart(ac)
    /\ none_subtype_of_all \in BOOLEAN
    /\ query = NoQuery
    /\ via = <<>>

TreeNext == LoopRequeue \/ LoopMaterialize \/ LoopReturn

TreeSpec == TreeInit /\ [][TreeNext]_vars

---------------------------------------------------------------------------
(* Properties of the hierarchy construction. *)

RECURSIVE CoverClosure(_, _)
\* the names that can ever be covered: object, and every key whose bases can
CoverClosure(ac, S) ==
    LET S2 == S \cup {k \in Keys(ac) : Range(BasesOf(ac, k)) \subseteq S}
    IN  IF S2 = S THEN S ELSE CoverClosure(ac, S2)

\* every base is declared (or is the root) and the bases form no cycle
Resolvable(ac) == CoverClosure(ac, {"object"}) = Keys(ac) \cup {"object"}

\* the nodes the loop has made (nodes[1] is the root made before the loop)
LoopNodes == 2..Len(nodes)

ParentNames(n) == [j \in 1..Len(nodes[n].parents) |-> nodes[nodes[n].parents[j]].name]

\* the links of the finished hierarchy are exactly the declared bases
LinksAreDeclaredEdges ==
    /\ \A k \in Keys(all_classes) : Cardinality({n \in LoopNodes : nodes[n].name = k}) = 1
    /\ \A n \in LoopNodes :
          /\ None \notin Range(nodes[n].parents)
          /\ ParentNames(n) = BasesOf(all_classes, nodes[n].name)
    /\ \A n, p \in 1..Len(nodes) :
          (p \in Range(nodes[n].parents)) <=> (n \in Range(nodes[p].children))

\* C1: a mapping with an undeclared base or a cycle of bases is given up after
\* finitely many requeues (at most one round per class) with a configuration
\* error; the worklist does not keep growing.
C1_UnresolvableEndsInConfigError ==
    (~Resolvable(all_classes) /\ Requeues > Len(all_classes) * Len(all_classes))
        => pc = "configuration_error"

\* C2: for every mapping whose bases are all declared and acyclic, in every key
\* order, the construction ends normally, has made each declared class once,
\* and its parent/child links are exactly the declared inheritance edges.
C2_ResolvableBuildsDeclaredEdges ==
    Resolvable(all_classes) =>
        /\ pc # "crashed"
        /\ Requeues < MaxRequeues
        /\ pc = "done" => LinksAreDeclaredEdges

\* every class other than the root names at least one base
EveryClassHasABase(ac) ==
    \A j \in 1..Len(ac) : ac[j].name # "object" => ac[j].bases # <<>>

\* C2 holds of the mappings in which only the root has an empty base list
ResolvableWithBasesBuildsDeclaredEdges ==
    (Resolvable(all_classes) /\ EveryClassHasABase(all_classes)) =>
        /\ pc # "crashed"
        /\ Requeues < MaxRequeues
        /\ pc = "done" => LinksAreDeclaredEdges

\* C3: at every step every covered name is a node that graph.find reaches from
\* the root, and every node made has all of its declared bases covered, also
\* when a declared class has an empty base list.
C3_CoveredNamesAreFoundFromRoot ==
    pc \in {"loop", "done"} =>
        /\ \A name \in covered : Find(nodes, name) # None
        /\ \A n \in LoopNodes :
              Range(BasesOf(all_classes, nodes[n].name)) \subseteq covered

\* C3 holds of the mappings in which only the root has an empty base list
CoveredNamesAreFoundWithBases ==
    EveryClassHasABase(all_classes) => C3_CoveredNamesAreFoundFromRoot

---------------------------------------------------------------------------
(* Properties of the generated axioms. *)

RECURSIVE DeclaredAncestors(_, _)
\* the class n and the transitive bases the mapping declares for it
DeclaredAncestors(ac, n) ==
    {n} \cup UNION {DeclaredAncestors(ac, b) : b \in Range(BasesOf(ac, n))}

OrdinaryClasses == Classes \ {Cls("none")}

\* C4: for every declared class c, none included, and both values of
\* none_subtype_of_all, the generated axioms make subtype(c, c) true: the
\* right-hand side of the axiom on subtype(X, c) is true at X = c, and so is
\* that of the axiom on subtype(c, X) wherever it is generated (for every class
\* but none under none_subtype_of_all).
C4_ClassesAreSubtypesOfThemselves ==
    (query.posed /\ query.s \in Classes /\ query.t = query.s) =>
        /\ query.hasA <=> ~(query.s = Cls("none") /\ none_subtype_of_all)
        /\ \A p \in Policies : query.b[p] /\ (query.hasA => query.a[p])

\* none against itself under none_subtype_of_all, where only Axiom B exists
C4_NoneIsSubtypeOfItself ==
    /\ query.posed /\ query.s = Cls("none") /\ query.t = Cls("none")
    /\ none_subtype_of_all /\ ~query.hasA /\ query.b["B"]

IsTuplePair == query.posed /\ query.s.con \in TupleCons /\ query.t.con = query.s.con

\* t_i <: s_i at every position of the two tuples of the query
ElementsAreSubtypes(p) ==
    \A j \in 1..Len(query.s.args) : Sub(p, query.s.args[j], query.t.args[j])

\* C6 as claimed: tuple_k(t_1..t_k) is a subtype of tuple_k(s_1..s_k) when
\* t_i <: s_i at every position and is not when some t_i is not a subtype of
\* s_i, in the axiom of the left tuple and in the axiom of the right tuple.
C6_TuplesAreCovariantOnly ==
    IsTuplePair =>
        \A p \in Policies :
            /\ query.a[p] <=> ElementsAreSubtypes(p)
            /\ query.b[p] <=> ElementsAreSubtypes(p)

\* C6 as amended: tuple_k(t_1..t_k) is a subtype of tuple_k(s_1..s_k) when
\* t_i <: s_i at every position, and is not when some t_i is not a subtype of
\* s_i unless the two tuples are the same term, in both axioms.
C6_TuplesAreCovariantOrEqual ==
    IsTuplePair =>
        \A p \in Policies :
            /\ query.hasA
            /\ query.a[p] <=> (ElementsAreSubtypes(p) \/ query.s = query.t)
            /\ query.b[p] <=> (ElementsAreSubtypes(p) \/ query.s = query.t)

\* tuple_2(int, none) <: tuple_2(object, int) under none_subtype_of_all
C6_IntNoneUnderObjectInt ==
    /\ query.posed
    /\ none_subtype_of_all
    /\ query.s = Tuple(<<Cls("int"), Cls("none")>>)
    /\ query.t = Tuple(<<Cls("object"), Cls("int")>>)
    /\ query.a["A"] /\ query.b["B"]

IsFuncPair == query.posed /\ query.s.con \in FuncCons /\ query.t.con = query.s.con

\* b_i <: a_i at every parameter and r <: s, for the two functions of the query
ParamsContraReturnCo(p) ==
    /\ \A j \in 1..Len(Params(query.s)) : Sub(p, query.t.args[j], query.s.args[j])
    /\ Sub(p, Return(query.s), Return(query.t))

\* C7 as claimed: func_k(a_1..a_k -> r) is a subtype of func_k(b_1..b_k -> s)
\* if and only if b_i <: a_i at every parameter and r <: s, in both axioms,
\* whatever the two default-argument counts.
C7_FunctionsVaryOnly ==
    IsFuncPair =>
        \A p \in Policies :
            /\ query.a[p] <=> ParamsContraReturnCo(p)
            /\ query.b[p] <=> ParamsContraReturnCo(p)

\* C7 as amended: func_k(a_1..a_k -> r) is a subtype of func_k(b_1..b_k -> s)
\* if and only if b_i <: a_i at every parameter and r <: s, or the two
\* functions are the same term (default-argument count included), in both
\* axioms; the variance condition ignores the two default-argument counts.
C7_FunctionsVaryOrEqual ==
    IsFuncPair =>
        \A p \in Policies :
            /\ query.hasA
            /\ query.a[p] <=> (ParamsContraReturnCo(p) \/ query.s = query.t)
            /\ query.b[p] <=> (ParamsContraReturnCo(p) \/ query.s = query.t)

\* func_1(object -> int) <: func_1(int -> object), with different default counts
C7_DefaultsDifferAndVarianceHolds ==
    /\ query.posed
    /\ query.s = Func(0, <<Cls("object")>>, Cls("int"))
    /\ query.t = Func(1, <<Cls("int")>>, Cls("object"))
    /\ query.a["A"] /\ query.b["B"]

\* a type that is not a union against a union
IsPacking == query.posed /\ NotUnion(query.s) /\ query.t.con \in UnionCons
\* a union against a type that is not a union
IsUnpacking == query.posed /\ query.s.con \in UnionCons /\ NotUnion(query.t)

SubtypeOfSomeMember(p) == \E j \in 1..Len(query.t.args) : Sub(p, query.s, query.t.args[j])
EveryMemberIsSubtype(p) == \A j \in 1..Len(query.s.args) : Sub(p, query.s.args[j], query.t)

MembersAreNotUnions(u) == \A j \in 1..Len(u.args) : NotUnion(u.args[j])

\* C8 as claimed: for every union arity, a type t that is not a union is a
\* subtype of union_k(x_1..x_k) if and only if t <: x_i for some i, and
\* union_k(x_1..x_k) is a subtype of a type c that is not a union if and only
\* if every x_i <: c.
C8_UnionsPackAndUnpack ==
    /\ IsPacking =>
          \A p \in Policies :
              /\ query.hasA => (query.a[p] <=> SubtypeOfSomeMember(p))
              /\ query.b[p] <=> SubtypeOfSomeMember(p)
    /\ IsUnpacking =>
          \A p \in Policies :
              /\ query.a[p] <=> EveryMemberIsSubtype(p)
              /\ query.b[p] <=> EveryMemberIsSubtype(p)

\* C8 as amended: the same, for the unions union_k(x_1..x_k) none of whose
\* members x_i is itself a union.
C8_FlatUnionsPackAndUnpack ==
    /\ (IsPacking /\ MembersAreNotUnions(query.t)) =>
          \A p \in Policies :
              /\ query.hasA => (query.a[p] <=> SubtypeOfSomeMember(p))
              /\ query.b[p] <=> SubtypeOfSomeMember(p)
    /\ (IsUnpacking /\ MembersAreNotUnions(query.s)) =>
          \A p \in Policies :
              /\ query.hasA
              /\ query.a[p] <=> EveryMemberIsSubtype(p)
              /\ query.b[p] <=> EveryMemberIsSubtype(p)

\* C <: union_3(none, A, none) through its base A
C8_PackedIntoUnionOfThree ==
    /\ query.posed
    /\ query.s = Cls("C")
    /\ query.t = Union(<<Cls("none"), Cls("A"), Cls("none")>>)
    /\ query.a["A"] /\ query.b["B"]

RECURSIVE NoneRelated(_)
\* none itself, an ancestor of none, or a union with such a member
NoneRelated(x) ==
    \/ x \in Classes /\ x.con \in DeclaredAncestors(all_classes, "none")
    \/ x.con \in UnionCons /\ \E j \in 1..Len(x.args) : NoneRelated(x.args[j])

IsNoneQuery == query.posed /\ query.s = Cls("none")

\* C9 as claimed: under none_subtype_of_all the axioms make subtype(none, X)
\* true for every term X (class, tuple, function, union); without it none is
\* related only to itself, its ancestors and unions containing such a type.
C9_NoneIsSubtypeOfEveryTerm ==
    IsNoneQuery =>
        IF none_subtype_of_all
        THEN \A p \in Policies : query.b[p]
        ELSE \A p \in Policies : (query.a[p] \/ query.b[p]) => NoneRelated(query.t)

\* C9 as amended: under none_subtype_of_all the axioms make subtype(none, X)
\* true for every term X that is not a union with a union among its members
\* (for such a union it is false); without it none is related only to itself,
\* its ancestors and unions containing such a type.
C9_NoneIsSubtypeOfEveryFlatTerm ==
    IsNoneQuery =>
        IF none_subtype_of_all
        THEN /\ ~query.hasA
             /\ \A p \in Policies :
                   query.b[p] <=>
                       (query.t.con \in UnionCons => MembersAreNotUnions(query.t))
        ELSE /\ query.hasA
             /\ \A p \in Policies : (query.a[p] \/ query.b[p]) => NoneRelated(query.t)

\* none <: func_1(int -> object) under none_subtype_of_all
C9_NoneUnderFunction ==
    /\ IsNoneQuery /\ none_subtype_of_all
    /\ query.t = Func(1, <<Cls("int")>>, Cls("object"))
    /\ query.b["A"] /\ query.b["B"]

NodeNames == {nodes[c].name : c \in all_children(1)}

\* C10 as claimed: the axiom on subtype(none, X) is skipped exactly when
\* none_subtype_of_all is false; the axiom on subtype(c, X) is generated for
\* every other node and the axiom on subtype(X, c) for every node.
C10_NoneAxiomSkippedWhenFlagFalse ==
    pc = "ready" =>
        /\ <<"A", "none">> \notin axioms <=> ~none_subtype_of_all
        /\ \A n \in NodeNames \ {"none"} : <<"A", n>> \in axioms
        /\ \A n \in NodeNames : <<"B", n>> \in axioms

\* C10 as amended: the axiom on subtype(none, X) is skipped exactly when
\* none_subtype_of_all is true (none is then a subtype of every type by the
\* axioms on subtype(X, c)) and generated when it is false; the axiom on
\* subtype(c, X) is generated for every other node and the axiom on
\* subtype(X, c) for every node.
C10_NoneAxiomSkippedWhenFlagTrue ==
    pc = "ready" =>
        /\ <<"A", "none">> \notin axioms <=> none_subtype_of_all
        /\ \A n \in NodeNames \ {"none"} : <<"A", n>> \in axioms
        /\ \A n \in NodeNames : <<"B", n>> \in axioms
        /\ NodeNames = Keys(all_classes)

\* the axioms generated under none_subtype_of_all
C10_NoneAxiomSkipped ==
    /\ pc = "ready" /\ none_subtype_of_all
    /\ <<"A", "none">> \notin axioms /\ <<"B", "none">> \in axioms

---------------------------------------------------------------------------
(* Properties of the relation as a whole. *)

\* the generated axioms give subtype(s, t) as true: the axiom on subtype(s, X),
\* where one was generated, and the axiom on subtype(X, t), with the
\* applications inside them read either way
Entailed(s, t) ==
    \A p \in Policies :
        /\ <<"A", s.con>> \in axioms => RhsA(p, s, t)
        /\ RhsB(p, s, t)

\* C11: the relation is antisymmetric up to syntactic equality: for the two
\* terms s and t of an application, subtype(s, t) and subtype(t, s) together
\* imply s = t.
C11_AntisymmetricUpToEquality ==
    query.posed /\ Entailed(query.s, query.t) /\ Entailed(query.t, query.s)
        => query.s = query.t

\* C12: the relation is transitive, under both values of none_subtype_of_all:
\* for the three types r, m, t of a chain, subtype(r, m) and subtype(m, t)
\* imply subtype(r, t), whichever of the two axioms the applications are read by.
C12_Transitive ==
    query.posed /\ via # <<>> =>
        \A p \in Policies :
            (Sub(p, query.s, via[1]) /\ Sub(p, via[1], query.t) => Sub(p, query.s, query.t))

\* transitivity as the axioms on subtype(c, X) alone give the relation
TransitiveByAxiomA ==
    query.posed /\ via # <<>> =>
        (Sub("A", query.s, via[1]) /\ Sub("A", via[1], query.t) => Sub("A", query.s, query.t))

\* an application of subtype to two unions none of whose members is a union
IsUnionToUnion ==
    /\ query.posed
    /\ query.s.con \in UnionCons /\ query.t.con \in UnionCons
    /\ \A j \in 1..Len(query.s.args) : NotUnion(query.s.args[j])
    /\ \A j \in 1..Len(query.t.args) : NotUnion(query.t.args[j])

\* every member of the subtype side is a subtype of some member of the
\* supertype side
EachMemberUnderSome(p) ==
    \A j \in 1..Len(query.s.args) : \E m \in 1..Len(query.t.args) :
        Sub(p, query.s.args[j], query.t.args[m])

\* every member of the supertype side has some member of the subtype side
\* below it
EachMemberAboveSome(p) ==
    \A m \in 1..Len(query.t.args) : \E j \in 1..Len(query.s.args) :
        Sub(p, query.s.args[j], query.t.args[m])

\* C13: union_j(x_1..x_j) is a subtype of union_k(y_1..y_k) exactly when every
\* x_i is a subtype of at least one y_m, and the axiom on subtype(union_j, X)
\* and the axiom on subtype(X, union_k) both state this condition.
C13_UnionToUnionSameInBothAxioms ==
    IsUnionToUnion =>
        \A p \in Policies :
            /\ query.a[p] <=> EachMemberUnderSome(p)
            /\ query.b[p] <=> EachMemberUnderSome(p)

\* what the two axioms state of two unions: the axiom on subtype(union_j, X)
\* the condition of C13, the axiom on subtype(X, union_k) the condition with
\* the two sides exchanged under the quantifiers
UnionToUnionAsGenerated ==
    IsUnionToUnion =>
        \A p \in Policies :
            /\ query.a[p] <=> EachMemberUnderSome(p)
            /\ query.b[p] <=> EachMemberAboveSome(p)

\* C14: the two axiom families never contradict each other: for the two terms
\* s and t of every application, the right-hand side of the axiom on
\* subtype(s, X) at X = t is equivalent to the right-hand side of the axiom on
\* subtype(X, t) at X = s.
C14_AxiomsAgree ==
    query.posed /\ query.hasA => \A p \in Policies : query.a[p] <=> query.b[p]

\* a union has no union among its members
HasFlatMembers(x) == x.con \in UnionCons => \A j \in 1..Len(x.args) : NotUnion(x.args[j])

\* the two right-hand sides agree on every application that is not of a union
\* to a union and has no union with a union member on either side
AxiomsAgreeOffUnionPairs ==
    /\ query.posed /\ query.hasA
    /\ NotUnion(query.s) \/ NotUnion(query.t)
    /\ HasFlatMembers(query.s) /\ HasFlatMembers(query.t)
    => \A p \in Policies : query.a[p] <=> query.b[p]

\* C14 for the applications that are not of a union to a union: violated by
\* a union with a union member against a class
AxiomsAgreeOffUnionToUnion ==
    query.posed /\ query.hasA /\ (NotUnion(query.s) \/ NotUnion(query.t))
        => \A p \in Policies : query.a[p] <=> query.b[p]

\* C14 for the applications of a type that is not a union: violated by a class
\* against a union of two with a union of three among its members
AxiomsAgreeOnNonUnionSubtypes ==
    query.posed /\ query.hasA /\ NotUnion(query.s)
        => \A p \in Policies : query.a[p] <=> query.b[p]

====
